---- MODULE Spec2Model ----
(***************************************************************************)
(* odoo-mcp-ro: a read-only MCP server in front of the Odoo RPC endpoint.  *)
(* The repository holds three builds of the same server:                   *)
(*   "ts"  - src/src/index.ts      (JSON-RPC, zod validation, v0.3.0)      *)
(*   "js"  - src/index.js          (JSON-RPC, no validation, v0.1.0)       *)
(*   "lib" - lib/server.js (src/unnamed/part_000) + src/lib/odoo-client.js *)
(*           (XML-RPC, no validation, v0.1.0)                              *)
(* A process runs one build; the build and the environment are fixed when  *)
(* the process starts.  A tool call is a handler invocation that runs up   *)
(* to its next await on the network; the remote system's reply resumes it. *)
(***************************************************************************)
EXTENDS Integers, Sequences, FiniteSets, TLC

VARIABLES impl, env, odooClient, task, authReturned

vars == <<impl, env, odooClient, task, authReturned>>

----------------------------------------------------------------------------
(* Bounds of the model.                                                    *)

\* longest record list the remote system returns
MaxRecs == 2

\* the record identifiers the remote system returns
RecordIds == {1, 2}

----------------------------------------------------------------------------
(* Builds, environment.                                                    *)

Impls == {"ts", "js", "lib"}

\* process.env: a variable is either set (TRUE / its value) or unset
\* (FALSE / the empty string).
Env(url, db, user, password, apiKey) ==
  [url |-> url, db |-> db, user |-> user, password |-> password,
   apiKey |-> apiKey]

\* the environments of the model: everything set, one variable unset, and
\* neither secret set
Envs ==
  {Env(TRUE, TRUE, TRUE, "pw", "key"),
   Env(FALSE, TRUE, TRUE, "pw", "key"),
   Env(TRUE, FALSE, TRUE, "pw", "key"),
   Env(TRUE, TRUE, FALSE, "pw", "key"),
   Env(TRUE, TRUE, TRUE, "", "key"),
   Env(TRUE, TRUE, TRUE, "pw", ""),
   Env(TRUE, TRUE, TRUE, "", "")}

\* a || b of JavaScript on strings, the empty string (or undefined) being falsy
OrElse(a, b) == IF a # "" THEN a ELSE b

----------------------------------------------------------------------------
(* Requests.                                                               *)

ToolNames ==
  {"search_records", "get_record", "list_models", "get_model_fields"}

\* a name that is not a registered tool
UnknownName == "delete_records"

\* The arguments object of a request.  `defined` is FALSE when the request
\* carries no arguments object at all; `supplied` is the set of keys present;
\* a key that is not supplied holds the neutral value of its type.
NoArgs ==
  [defined |-> FALSE, supplied |-> {}, model |-> "", domain |-> <<>>,
   ids |-> <<>>, fields |-> <<>>, limit |-> 0, offset |-> 0, order |-> "",
   transient |-> FALSE]

EmptyArgs == [NoArgs EXCEPT !.defined = TRUE]

Has(args, k) == k \in args.supplied

ModelValues == {"", "res.partner"}
\* a domain is a list of triplets; a triplet is named by a number
DomainValues == {<<>>, <<1>>}
FieldsValues == {<<"name">>, <<"zz", "name", "aa">>}
LimitValues == {-5, 0, 10, 1500}
OffsetValues == {-1, 5}
OrderValues == {"", "name asc"}
IdsValues == {<<>>, <<1>>, <<2, 1>>, <<0>>}

\* Opt(k, S): the ways to leave key k out or to supply a value of S
Opt(k, S) == {[has |-> FALSE, v |-> NoArgs[k]]} \cup {[has |-> TRUE, v |-> x] : x \in S}

Supplied(m, d, i, f, l, o, r, t) ==
  (IF m.has THEN {"model"} ELSE {}) \cup (IF d.has THEN {"domain"} ELSE {})
  \cup (IF i.has THEN {"ids"} ELSE {}) \cup (IF f.has THEN {"fields"} ELSE {})
  \cup (IF l.has THEN {"limit"} ELSE {}) \cup (IF o.has THEN {"offset"} ELSE {})
  \cup (IF r.has THEN {"order"} ELSE {}) \cup (IF t.has THEN {"transient"} ELSE {})

None(k) == {[has |-> FALSE, v |-> NoArgs[k]]}

MkArgs(m, d, i, f, l, o, r, t) ==
  [defined |-> TRUE, supplied |-> Supplied(m, d, i, f, l, o, r, t),
   model |-> m.v, domain |-> d.v, ids |-> i.v, fields |-> f.v,
   limit |-> l.v, offset |-> o.v, order |-> r.v, transient |-> t.v]

SearchArgs ==
  {MkArgs(m, d, i, f, l, o, r, t) :
     m \in Opt("model", ModelValues) \ None("model"), d \in Opt("domain", DomainValues),
     i \in None("ids"), f \in Opt("fields", FieldsValues),
     l \in Opt("limit", LimitValues), o \in Opt("offset", OffsetValues),
     r \in Opt("order", OrderValues), t \in None("transient")}

GetRecordArgs ==
  {MkArgs(m, d, i, f, l, o, r, t) :
     m \in Opt("model", ModelValues), d \in None("domain"),
     i \in Opt("ids", IdsValues), f \in Opt("fields", FieldsValues),
     l \in None("limit"), o \in None("offset"),
     r \in None("order"), t \in None("transient")}

ListModelsArgs ==
  {MkArgs(m, d, i, f, l, o, r, t) :
     m \in None("model"), d \in None("domain"),
     i \in None("ids"), f \in None("fields"),
     l \in None("limit"), o \in None("offset"),
     r \in None("order"), t \in Opt("transient", BOOLEAN)}

GetModelFieldsArgs ==
  {MkArgs(m, d, i, f, l, o, r, t) :
     m \in Opt("model", ModelValues), d \in None("domain"),
     i \in None("ids"), f \in Opt("fields", FieldsValues),
     l \in None("limit"), o \in None("offset"),
     r \in None("order"), t \in None("transient")}

ArgsOf(name) ==
  {NoArgs} \cup
  CASE name = "search_records" -> SearchArgs
    [] name = "get_record" -> GetRecordArgs
    [] name = "list_models" -> ListModelsArgs
    [] name = "get_model_fields" -> GetModelFieldsArgs
    [] OTHER -> {EmptyArgs}

AllNames == ToolNames \cup {UnknownName}

NoRequest == [name |-> "", args |-> NoArgs]

----------------------------------------------------------------------------
(* Values exchanged with the remote system.                                *)

\* identity tokens: 0 stands for every falsy result (false, null, 0)
Tokens == {0, 7, 8}

RECURSIVE SeqsUpTo(_, _)
SeqsUpTo(S, n) ==
  IF n = 0 THEN {<<>>}
  ELSE LET shorter == SeqsUpTo(S, n - 1)
       IN shorter \cup {Append(q, x) : q \in shorter, x \in S}

\* A decoded payload (the `result` member of the reply): a list of records
\* (a record is named by its id), a map keyed by field name, null, or
\* another non-null value that is neither (shape "other": a number).
\* Shapes "record" and "undefined" arise only inside the server.
Payload(shape, items, keys) == [shape |-> shape, items |-> items, keys |-> keys]

NullPayload == Payload("null", <<>>, {})
OtherPayload == Payload("other", <<>>, {})
ListPayload(items) == Payload("list", items, {})
MapPayload(keys) == Payload("map", <<>>, keys)

ListPayloads == {ListPayload(q) : q \in SeqsUpTo(RecordIds, MaxRecs)}
MapPayloads == {MapPayload(k) : k \in {{}, {"name"}, {"name", "aa"}}}

\* messages of the error envelope of the remote system
RemoteMessages == {"", "Invalid field zz"}

\* A reply of the remote system to one POST: kind "ok" carries a result,
\* "rpcerr" an error envelope, "http" a non-success status, "timeout" no
\* reply at all (the request times out or the connection fails).
Reply(kind, token, payload, msg) ==
  [kind |-> kind, token |-> token, payload |-> payload, msg |-> msg]

\* a non-success status comes with any body, an error envelope included
FailReplies ==
  {Reply("timeout", 0, NullPayload, "")}
  \cup {Reply(k, 0, NullPayload, m) : k \in {"http", "rpcerr"}, m \in RemoteMessages}

AuthReplies == {Reply("ok", u, NullPayload, "") : u \in Tokens} \cup FailReplies

ExecRepliesFor(op) ==
  {Reply("ok", 0, p, "") :
     p \in (IF op = "fields_get" THEN MapPayloads ELSE ListPayloads)
            \cup {NullPayload, OtherPayload}}
  \cup FailReplies

\* keyword arguments of execute_kw: the keys present and their values
NoKw == [keys |-> {}, fields |-> <<>>, limit |-> 0, offset |-> 0, order |-> ""]

\* A call of the convenience layer: model, Odoo method, positional, keyword
Invocation(model, op, pos, kw) ==
  [model |-> model, op |-> op, pos |-> pos, kw |-> kw]

NoInvocation == Invocation("", "", <<>>, NoKw)

\* A remote procedure call as sent: (service, method) and, of its
\* parameters, the token, the secret and the invocation.
RemoteCall(service, method, uid, secret, inv) ==
  [service |-> service, method |-> method, uid |-> uid, secret |-> secret,
   inv |-> inv]

\* A thrown error: constructor name and message
Err(ctor, msg) == [ctor |-> ctor, msg |-> msg]

NoErr == Err("", "")

\* The text payload of a result: its kind (the fixed wording), the count it
\* prints (-1 when it prints "undefined"), the payload it serialises, for
\* errors the constructor name and the message, and the field names it lists.
Text(kind, count, payload, ctor, msg, names) ==
  [kind |-> kind, count |-> count, payload |-> payload, ctor |-> ctor,
   msg |-> msg, names |-> names]

\* A CallToolResult: the `isError` member is present (hasFlag) or not
Result(text, hasFlag, isError) ==
  [text |-> text, hasFlag |-> hasFlag, isError |-> isError]

\* no payload is serialised into the text
NoPayload == Payload("none", <<>>, {})

NoResult == Result(Text("", 0, NoPayload, "", "", <<>>), FALSE, FALSE)

----------------------------------------------------------------------------
(* The session: the lazily created client handle and its cached token.     *)

\* odooClient = null is exists = FALSE; uid = 0 is a null (or falsy) uid
OdooClient(password) == [exists |-> TRUE, password |-> password, uid |-> 0]

NoClient == [exists |-> FALSE, password |-> "", uid |-> 0]

\* the outcome of an operation that returns a client or throws
Got(client) == [ok |-> TRUE, client |-> client, err |-> NoErr]
Thrown(client, err) == [ok |-> FALSE, client |-> client, err |-> err]

\* index.ts: the secret is ODOO_PASSWORD || ODOO_API_KEY
SecretTs(e) == OrElse(e.password, e.apiKey)

\* index.js and odoo-client.js: this.password = apiKey || password
SecretJs(e) == OrElse(e.apiKey, e.password)

getOdooClientTs(e, c) ==
  IF c.exists THEN Got(c)
  ELSE IF ~e.url \/ ~e.db \/ ~e.user \/ SecretTs(e) = ""
       THEN Thrown(c, Err("Error", "Missing required environment variables"))
       ELSE Got(OdooClient(SecretTs(e)))

\* new OdooClient({...}) of index.js: the secret check, then url.replace
getOdooClientJs(e, c) ==
  IF c.exists THEN Got(c)
  ELSE IF e.password = "" /\ e.apiKey = ""
       THEN Thrown(c, Err("Error", "Either password or apiKey must be provided"))
       ELSE IF ~e.url
            THEN Thrown(c, Err("TypeError",
                   "Cannot read properties of undefined (reading 'replace')"))
            ELSE Got(OdooClient(SecretJs(e)))

\* new OdooConfig({...}) then new OdooClient(config) of lib/
getOdooClientLib(e, c) ==
  IF c.exists THEN Got(c)
  ELSE IF e.password = "" /\ e.apiKey = ""
       THEN Thrown(c, Err("Error", "Either password or apiKey must be provided"))
       ELSE IF ~e.url
            THEN Thrown(c, Err("TypeError",
                   "Cannot read properties of undefined (reading 'replace')"))
            ELSE Got(OdooClient(SecretJs(e)))

\* a getOdooClient that builds a new client on every call
getOdooClientNoCache(i, e, c) ==
  CASE i = "ts" -> getOdooClientTs(e, NoClient)
    [] i = "js" -> getOdooClientJs(e, NoClient)
    [] OTHER -> getOdooClientLib(e, NoClient)

getOdooClient(i, e, c) ==
  CASE i = "ts" -> getOdooClientTs(e, c)
    [] i = "js" -> getOdooClientJs(e, c)
    [] OTHER -> getOdooClientLib(e, c)

----------------------------------------------------------------------------
(* The transport: what a reply that is not a result is turned into.        *)

\* index.ts rpc(): !response.ok, a rejected fetch, result.error
rpc(reply) ==
  CASE reply.kind = "http" -> Err("Error", "HTTP 500")
    [] reply.kind = "timeout" -> Err("TypeError", "fetch failed")
    [] OTHER -> Err("Error", OrElse(reply.msg, "Odoo error"))

\* index.js jsonRpcCall()
jsonRpcCall(reply) ==
  CASE reply.kind = "http" -> Err("Error", "HTTP 500: Internal Server Error")
    [] reply.kind = "timeout" -> Err("Error", "Request timeout")
    [] OTHER -> Err("Error", "Odoo Error: " \o OrElse(reply.msg, "Unknown error"))

\* the message of the error the xmlrpc library hands to the callback
XmlRpcMessage(reply) ==
  CASE reply.kind = "http" -> "Unknown Error"
    [] reply.kind = "timeout" -> "socket hang up"
    [] OTHER -> "XML-RPC fault: " \o reply.msg

\* odoo-client.js: the callbacks of authenticate() and execute()
methodCall(method, op, reply) ==
  IF method = "authenticate"
  THEN Err("Error", "Connection failed: " \o XmlRpcMessage(reply))
  ELSE Err("Error", op \o " failed: " \o XmlRpcMessage(reply))

TransportError(i, method, op, reply) ==
  CASE i = "ts" -> rpc(reply)
    [] i = "js" -> jsonRpcCall(reply)
    [] OTHER -> methodCall(method, op, reply)

\* the error of a falsy authenticate result
AuthFailed(i) ==
  IF i = "ts" THEN Err("Error", "Auth failed")
  ELSE Err("Error", "Authentication failed: Invalid credentials")

\* /field/i.test(message)
MentionsField(msg) ==
  \E k \in 1..(Len(msg) - 4) : SubSeq(msg, k, k + 4) \in {"field", "Field", "FIELD"}

----------------------------------------------------------------------------
(* Validation (index.ts only): the issues zod reports, in schema order,    *)
(* each rendered as `${path}: ${message}`.                                 *)

\* z.string() without .min(1)
ModelIssuesWithoutMin(args) ==
  IF ~Has(args, "model") THEN <<"model: Required">> ELSE <<>>

ModelIssues(args) ==
  IF ~Has(args, "model") THEN <<"model: Required">>
  ELSE IF args.model = "" THEN <<"model: Model name cannot be empty">>
  ELSE <<>>

RECURSIVE IdIssues(_, _)
IdIssues(ids, k) ==
  IF k > Len(ids) THEN <<>>
  ELSE (IF ids[k] > 0 THEN <<>>
        ELSE <<"ids." \o ToString(k - 1) \o ": Number must be greater than 0">>)
       \o IdIssues(ids, k + 1)

IdsIssues(args) ==
  IF ~Has(args, "ids") THEN <<"ids: Required">> ELSE IdIssues(args.ids, 1)

SearchRecordsSchema(args) ==
  IF ~args.defined THEN <<": Required">> ELSE ModelIssues(args)

GetRecordSchema(args) ==
  IF ~args.defined THEN <<": Required">> ELSE ModelIssues(args) \o IdsIssues(args)

\* ListModelsSchema.parse(args || {})
ListModelsSchema(args) == <<>>

GetModelFieldsSchema(args) ==
  IF ~args.defined THEN <<": Required">> ELSE ModelIssues(args)

RECURSIVE Join(_)
Join(issues) ==
  IF Len(issues) = 0 THEN ""
  ELSE IF Len(issues) = 1 THEN issues[1]
  ELSE issues[1] \o ", " \o Join(Tail(issues))

ZodError(issues) == Err("ZodError", Join(issues))

----------------------------------------------------------------------------
(* The convenience layer: from validated arguments to an invocation.       *)

Kw(keys, fields, limit, offset, order) ==
  [keys |-> keys, fields |-> fields, limit |-> limit, offset |-> offset,
   order |-> order]

\* the limit index.ts sends with every search_read of search_records
DefaultLimit == 1000

\* index.ts, search_records: kwargs.fields if given, kwargs.limit = 1000
SearchRecordsCallTs(args) ==
  Invocation(args.model, "search_read", <<args.domain>>,
    Kw((IF Has(args, "fields") THEN {"fields"} ELSE {}) \cup {"limit"},
       args.fields, DefaultLimit, 0, ""))

\* index.ts, get_record
GetRecordCallTs(args) ==
  Invocation(args.model, "read", <<args.ids>>,
    Kw(IF Has(args, "fields") THEN {"fields"} ELSE {}, args.fields, 0, 0, ""))

\* index.ts, list_models
ListModelsCallTs ==
  Invocation("ir.model", "search_read", << <<>> >>,
    Kw({"fields"}, <<"model", "name">>, 0, 0, ""))

\* index.ts, get_model_fields
GetModelFieldsCallTs(args) ==
  Invocation(args.model, "fields_get", <<>>,
    Kw(IF Has(args, "fields") THEN {"allfields"} ELSE {}, args.fields, 0, 0, ""))

\* the fields_get call of the invalid-field diagnosis of index.ts
FieldsProbe(model) == Invocation(model, "fields_get", <<>>, NoKw)

InvocationTs(req) ==
  CASE req.name = "search_records" -> SearchRecordsCallTs(req.args)
    [] req.name = "get_record" -> GetRecordCallTs(req.args)
    [] req.name = "list_models" -> ListModelsCallTs
    [] OTHER -> GetModelFieldsCallTs(req.args)

\* a searchRead that sends offset only when it is truthy
searchReadOffsetIfTruthy(model, domain, hasFields, fields, offset, limit, order) ==
  Invocation(model, "search_read", <<domain>>,
    Kw((IF offset # 0 THEN {"offset"} ELSE {})
         \cup (IF hasFields THEN {"fields"} ELSE {})
         \cup (IF limit # 0 THEN {"limit"} ELSE {})
         \cup (IF order # "" THEN {"order"} ELSE {}),
       fields, limit, offset, order))

\* OdooClient.searchRead of index.js and odoo-client.js: kwargs = { offset },
\* then fields, limit, order when truthy (limit 0 and order "" are falsy;
\* hasFields is FALSE for null)
searchRead(model, domain, hasFields, fields, offset, limit, order) ==
  Invocation(model, "search_read", <<domain>>,
    Kw({"offset"} \cup (IF hasFields THEN {"fields"} ELSE {})
         \cup (IF limit # 0 THEN {"limit"} ELSE {})
         \cup (IF order # "" THEN {"order"} ELSE {}),
       fields, limit, offset, order))

\* a search_records case that goes through OdooClient.search, whose remote
\* method is `search`
SearchRecordsViaSearch(args) ==
  Invocation(args.model, "search", <<args.domain>>,
    Kw({"offset"} \cup (IF args.limit # 0 THEN {"limit"} ELSE {})
         \cup (IF args.order # "" THEN {"order"} ELSE {}),
       <<>>, args.limit, args.offset, args.order))

\* the search_records case of index.js and lib/server.js:
\* searchRead(args.model, args.domain || [], { fields, offset || 0, limit, order })
SearchRecordsCallJs(args) ==
  searchRead(args.model, args.domain, Has(args, "fields"), args.fields,
             args.offset, args.limit, args.order)

\* ids = Array.isArray(ids) ? ids : [ids]; an undefined id is written 0
IdsList(args) == IF Has(args, "ids") THEN args.ids ELSE <<0>>

\* OdooClient.read, up to the execute call
read(args) ==
  Invocation(args.model, "read", <<IdsList(args)>>,
    Kw(IF Has(args, "fields") THEN {"fields"} ELSE {}, args.fields, 0, 0, ""))

\* OdooClient.fieldsGet
fieldsGet(args) ==
  Invocation(args.model, "fields_get", <<>>,
    Kw(IF Has(args, "fields") THEN {"allfields"} ELSE {}, args.fields, 0, 0, ""))

\* OdooClient.getModelList
getModelList ==
  searchRead("ir.model", <<>>, TRUE, <<"model", "name", "transient">>, 0, 0, "")

InvocationJs(req) ==
  CASE req.name = "search_records" -> SearchRecordsCallJs(req.args)
    [] req.name = "get_record" -> read(req.args)
    [] req.name = "list_models" -> getModelList
    [] OTHER -> fieldsGet(req.args)

----------------------------------------------------------------------------
(* Rendering the payload of a successful remote call.                      *)

\* the record with id x describes a transient model iff x is even;
\* its technical model name sorts as x does
IsTransient(x) == x % 2 = 0

RECURSIVE Insert(_, _)
Insert(x, sorted) ==
  IF sorted = <<>> THEN <<x>>
  ELSE IF x < Head(sorted) THEN <<x>> \o sorted
  ELSE <<Head(sorted)>> \o Insert(x, Tail(sorted))

\* a rendering that leaves the models in the order of the reply
Unsorted(q) == q

\* models.sort((a, b) => a.model.localeCompare(b.model))
RECURSIVE Sort(_)
Sort(q) == IF q = <<>> THEN <<>> ELSE Insert(q[Len(q)], Sort(SubSeq(q, 1, Len(q) - 1)))

\* models.filter(m => !m.transient)
NotTransient(q) == SelectSeq(q, LAMBDA x : ~IsTransient(x))

\* Object.keys(payload) of a non-null payload
Keys(p) ==
  CASE p.shape = "map" -> p.keys
    [] p.shape = "list" -> {ToString(k - 1) : k \in 1..Len(p.items)}
    [] OTHER -> {}

\* the outcome of a rendering: a result, or a thrown error
Rendered(result) == [ok |-> TRUE, result |-> result, err |-> NoErr]
Threw(err) == [ok |-> FALSE, result |-> NoResult, err |-> err]

NullDeref == Err("TypeError", "Cannot read properties of null")
UndefinedDeref == Err("TypeError", "Cannot read properties of undefined")
NotAFunction == Err("TypeError", "is not a function")

\* index.ts, search_records: result.length > 0 ? "Found N records ..." + JSON
\* : "Found 0 records ... (no records match the criteria)"
RenderSearchTs(p) ==
  IF p.shape = "null" THEN Threw(NullDeref)
  ELSE IF p.shape = "list" /\ Len(p.items) > 0
       THEN Rendered(Result(Text("Found", Len(p.items), p, "", "", <<>>), TRUE, FALSE))
       ELSE Rendered(Result(Text("Found", 0, NoPayload, "", "", <<>>), TRUE, FALSE))

\* index.ts, get_record: "Retrieved ${result.length} records ..." + JSON
RenderGetRecordTs(p) ==
  IF p.shape = "null" THEN Threw(NullDeref)
  ELSE Rendered(Result(
         Text("Retrieved", IF p.shape = "list" THEN Len(p.items) ELSE -1,
              p, "", "", <<>>), TRUE, FALSE))

\* index.ts, list_models: sort in place, "Found N available Odoo models",
\* one bullet per model
RenderListModelsTs(p) ==
  CASE p.shape = "null" -> Threw(NullDeref)
    [] p.shape = "list" ->
         Rendered(Result(Text("Models", Len(p.items), ListPayload(Sort(p.items)),
                              "", "", <<>>), TRUE, FALSE))
    [] OTHER -> Threw(NotAFunction)

\* index.ts, get_model_fields: "Model 'm' has N fields" + JSON
RenderGetModelFieldsTs(p) ==
  IF p.shape = "null" THEN Threw(NullDeref)
  ELSE Rendered(Result(Text("Fields", Cardinality(Keys(p)), p, "", "", <<>>),
                       TRUE, FALSE))

RenderTs(req, p) ==
  CASE req.name = "search_records" -> RenderSearchTs(p)
    [] req.name = "get_record" -> RenderGetRecordTs(p)
    [] req.name = "list_models" -> RenderListModelsTs(p)
    [] OTHER -> RenderGetModelFieldsTs(p)

\* JSON.stringify(result, null, 2) as the whole text, no error flag
Json(p) == Result(Text("Json", 0, p, "", "", <<>>), FALSE, FALSE)

\* OdooClient.read after the execute call:
\* ids.length === 1 ? result[0] : result, then JSON.stringify in the handler
\* (undefined serialises to undefined, not to a string)
RenderGetRecordJs(args, p) ==
  IF Len(IdsList(args)) # 1 THEN Rendered(Json(p))
  ELSE IF p.shape = "null" THEN Threw(NullDeref)
  ELSE IF p.shape = "list" /\ Len(p.items) > 0
       THEN Rendered(Json(Payload("record", <<p.items[1]>>, {})))
       ELSE Rendered(Json(Payload("undefined", <<>>, {})))

\* the list_models case of index.js and lib/server.js: args.transient is
\* read after the remote call; filter, sort, one bullet per model
RenderListModelsJs(args, p) ==
  IF ~args.defined THEN Threw(UndefinedDeref)
  ELSE CASE p.shape = "null" -> Threw(NullDeref)
         [] p.shape = "list" ->
              Rendered(Result(
                Text("Available Odoo models", 0,
                     ListPayload(Sort(IF args.transient THEN p.items
                                      ELSE NotTransient(p.items))),
                     "", "", <<>>), FALSE, FALSE))
         [] OTHER -> Threw(NotAFunction)

RenderJs(req, p) ==
  CASE req.name = "get_record" -> RenderGetRecordJs(req.args, p)
    [] req.name = "list_models" -> RenderListModelsJs(req.args, p)
    [] OTHER -> Rendered(Json(p))

\* a catch block that does not tell a ZodError from any other error
ErrorResultTsGeneric(err) ==
  Result(Text("Error", 0, NoPayload, "", err.msg, <<>>), TRUE, TRUE)

\* the catch block of the handler of index.ts
ErrorResultTs(err) ==
  Result(Text(IF err.ctor = "ZodError" THEN "Validation Error" ELSE "Error",
              0, NoPayload, "", err.msg, <<>>), TRUE, TRUE)

\* the catch block of the handler of index.js and lib/server.js:
\* `Error: ${error.constructor.name}: ${error.message}`, no error flag
ErrorResultJs(err) ==
  Result(Text("Error", 0, NoPayload, err.ctor, err.msg, <<>>), FALSE, FALSE)

ErrorResult(i, err) == IF i = "ts" THEN ErrorResultTs(err) ELSE ErrorResultJs(err)

\* the default case of the switch
UnknownToolTs(name) ==
  Result(Text("Unknown tool", 0, NoPayload, "", name, <<>>), TRUE, TRUE)

UnknownToolJs(name) ==
  Result(Text("Unknown tool", 0, NoPayload, "", name, <<>>), FALSE, FALSE)

\* validatedArgs.fields.filter(f => !availableFields.has(f))
InvalidFields(fields, p) == SelectSeq(fields, LAMBDA x : x \notin Keys(p))

InvalidFieldsResult(names) ==
  Result(Text("Invalid field(s)", 0, NoPayload, "", "", names), TRUE, TRUE)

----------------------------------------------------------------------------
(* A tool call in flight.  pc: "idle" (no call), "auth" (awaiting the      *)
(* reply to authenticate), "exec" (awaiting the reply to execute_kw),      *)
(* "done" (the handler has returned `result`).  stage: "main", or          *)
(* "fallback" inside the invalid-field diagnosis.  cur: the invocation     *)
(* being made; error: the error the diagnosis started from; calls: the     *)
(* remote calls this tool call has sent, in order; got: the payload of the *)
(* last reply to execute_kw that carried a result; failed: the first reply *)
(* of this tool call that made a remote call fail; authed: the truthy      *)
(* token the authenticate call of this tool call returned (0: none).       *)

Tasks == {1, 2}

\* tool calls handled one after the other: the host sends a request when
\* the previous one has been answered
Serial == {1}

\* A failed remote call: its method, the kind of the reply ("falsy": a
\* falsy result of authenticate) and the message of the reply
Failure(method, kind, msg) == [method |-> method, kind |-> kind, msg |-> msg]

NoFailure == Failure("", "", "")

IdleFrame ==
  [pc |-> "idle", stage |-> "main", request |-> NoRequest, cur |-> NoInvocation,
   error |-> NoErr, calls |-> <<>>, got |-> NoPayload, result |-> NoResult,
   failed |-> NoFailure, authed |-> 0]

\* the frame once the reply to its pending remote call has arrived
Received(f, method, reply) ==
  LET falsy == method = "authenticate" /\ reply.kind = "ok" /\ reply.token = 0
      g == IF method = "authenticate" /\ reply.kind = "ok" /\ reply.token # 0
           THEN [f EXCEPT !.authed = reply.token]
           ELSE IF method = "execute_kw" /\ reply.kind = "ok"
                THEN [f EXCEPT !.got = reply.payload]
                ELSE f
  IN IF g.failed = NoFailure /\ (reply.kind # "ok" \/ falsy)
     THEN [g EXCEPT !.failed = Failure(method, IF falsy THEN "falsy" ELSE reply.kind,
                                        reply.msg)]
     ELSE g

Out(f, c) == [f |-> f, c |-> c]

\* return from the handler
Finish(f, result) == [f EXCEPT !.pc = "done", !.result = result]

\* POST { service: 'common', method: 'authenticate', args: [db, user, secret, {}] }
SendAuthenticate(f, c, inv) ==
  [f EXCEPT !.pc = "auth", !.cur = inv,
            !.calls = Append(@, RemoteCall("common", "authenticate", 0,
                                           c.password, NoInvocation))]

\* POST { service: 'object', method: 'execute_kw',
\*        args: [db, uid, secret, model, method, args, kwargs] }
SendExecuteKw(f, c, uid, inv) ==
  [f EXCEPT !.pc = "exec", !.cur = inv,
            !.calls = Append(@, RemoteCall("object", "execute_kw", uid,
                                           c.password, inv))]

\* a call() whose auth() has lost its `if (this.uid) return this.uid`
CallWithoutCache(f, c, inv) == SendAuthenticate(f, c, inv)

\* OdooClient.call (index.ts) / OdooClient.execute (index.js, odoo-client.js)
\* up to the first request it sends: a cached uid skips authenticate
call(f, c, inv) ==
  IF c.uid # 0 THEN SendExecuteKw(f, c, c.uid, inv) ELSE SendAuthenticate(f, c, inv)

\* a catch that reports the error of the diagnosis instead of the first error
CatchLastError(i, f, c, err) ==
  IF i # "ts" THEN Finish(f, ErrorResultJs(err))
  ELSE IF f.stage = "fallback" THEN Finish(f, ErrorResultTs(err))
  ELSE IF /\ f.request.name \in {"search_records", "get_record"}
          /\ Has(f.request.args, "fields")
          /\ MentionsField(err.msg)
       THEN call([f EXCEPT !.stage = "fallback", !.error = err], c,
                 FieldsProbe(f.request.args.model))
       ELSE Finish(f, ErrorResultTs(err))

\* An error thrown inside the handler.  index.ts: the inner catch of
\* search_records and get_record starts the invalid-field diagnosis when
\* fields were given and the message mentions a field; an error inside the
\* diagnosis is swallowed and the first error is rethrown; the outer catch
\* renders the error.  index.js, lib/server.js: the outer catch only.
Catch(i, f, c, err) ==
  IF i # "ts" THEN Finish(f, ErrorResultJs(err))
  ELSE IF f.stage = "fallback" THEN Finish(f, ErrorResultTs(f.error))
  ELSE IF /\ f.request.name \in {"search_records", "get_record"}
          /\ Has(f.request.args, "fields")
          /\ MentionsField(err.msg)
       THEN call([f EXCEPT !.stage = "fallback", !.error = err], c,
                 FieldsProbe(f.request.args.model))
       ELSE Finish(f, ErrorResultTs(err))

\* an auth() that has lost its `if (!this.uid) throw`
authWithoutCheck(f, c, reply) ==
  IF reply.kind # "ok"
  THEN Out(Catch("ts", f, c, rpc(reply)), c)
  ELSE LET c2 == [c EXCEPT !.uid = reply.token]
       IN Out(SendExecuteKw(f, c2, c2.uid, f.cur), c2)

\* index.ts auth() after the reply: this.uid = result; a falsy uid throws
auth(f, c, reply) ==
  IF reply.kind # "ok"
  THEN Out(Catch("ts", f, c, rpc(reply)), c)
  ELSE LET c2 == [c EXCEPT !.uid = reply.token]
       IN IF c2.uid = 0
          THEN Out(Catch("ts", f, c2, AuthFailed("ts")), c2)
          ELSE Out(SendExecuteKw(f, c2, c2.uid, f.cur), c2)

\* index.js, odoo-client.js authenticate() after the reply: a falsy result
\* throws and is not stored; a truthy one is stored and returned
authenticate(i, f, c, reply) ==
  IF reply.kind # "ok"
  THEN Out(Catch(i, f, c, TransportError(i, "authenticate", f.cur.op, reply)), c)
  ELSE IF reply.token = 0
       THEN Out(Catch(i, f, c, AuthFailed(i)), c)
       ELSE LET c2 == [c EXCEPT !.uid = reply.token]
            IN Out(SendExecuteKw(f, c2, reply.token, f.cur), c2)

\* index.ts, the invalid-field diagnosis after fields_get has returned
Diagnose(f, p) ==
  IF p.shape = "null" THEN Finish(f, ErrorResultTs(f.error))
  ELSE LET invalid == InvalidFields(f.request.args.fields, p)
       IN IF Len(invalid) > 0 THEN Finish(f, InvalidFieldsResult(invalid))
          ELSE Finish(f, ErrorResultTs(f.error))

\* the handler after the reply to execute_kw
Resume(i, f, c, reply) ==
  IF reply.kind # "ok"
  THEN Catch(i, f, c, TransportError(i, "execute_kw", f.cur.op, reply))
  ELSE IF i = "ts"
       THEN IF f.stage = "fallback" THEN Diagnose(f, reply.payload)
            ELSE LET r == RenderTs(f.request, reply.payload)
                 IN IF r.ok THEN Finish(f, r.result) ELSE Catch(i, f, c, r.err)
       ELSE LET r == RenderJs(f.request, reply.payload)
            IN IF r.ok THEN Finish(f, r.result) ELSE Catch(i, f, c, r.err)

\* zod: the issues of the arguments against the schema of the tool
Schema(req) ==
  CASE req.name = "search_records" -> SearchRecordsSchema(req.args)
    [] req.name = "get_record" -> GetRecordSchema(req.args)
    [] req.name = "list_models" -> ListModelsSchema(req.args)
    [] OTHER -> GetModelFieldsSchema(req.args)

\* index.ts: the handler from its entry to its first await (or its return)
HandlerTs(f, c, req) ==
  IF req.name \notin ToolNames THEN Finish(f, UnknownToolTs(req.name))
  ELSE IF Schema(req) # <<>> THEN Finish(f, ErrorResultTs(ZodError(Schema(req))))
  ELSE call(f, c, InvocationTs(req))

\* index.js, lib/server.js: the handler from its entry to its first await;
\* args.model of an undefined args throws before any call
HandlerJs(i, f, c, req) ==
  IF req.name \notin ToolNames THEN Finish(f, UnknownToolJs(req.name))
  ELSE IF ~req.args.defined /\ req.name # "list_models"
       THEN Finish(f, ErrorResultJs(UndefinedDeref))
       ELSE call(f, c, InvocationJs(req))

\* a handler that answers an unknown tool name before it asks for the client
HandlerDefaultFirst(i, e, c, req) ==
  LET f == [IdleFrame EXCEPT !.request = req]
      g == getOdooClient(i, e, c)
  IN IF req.name \notin ToolNames
     THEN Out(Finish(f, IF i = "ts" THEN UnknownToolTs(req.name)
                        ELSE UnknownToolJs(req.name)), c)
     ELSE IF ~g.ok THEN Out(Finish(f, ErrorResult(i, g.err)), g.client)
     ELSE IF i = "ts" THEN Out(HandlerTs(f, g.client, req), g.client)
     ELSE Out(HandlerJs(i, f, g.client, req), g.client)

\* the CallToolRequestSchema handler: getOdooClient(), then the switch
Handler(i, e, c, req) ==
  LET f == [IdleFrame EXCEPT !.request = req]
      g == getOdooClient(i, e, c)
  IN IF ~g.ok THEN Out(Finish(f, ErrorResult(i, g.err)), g.client)
     ELSE IF i = "ts" THEN Out(HandlerTs(f, g.client, req), g.client)
     ELSE Out(HandlerJs(i, f, g.client, req), g.client)

----------------------------------------------------------------------------
(* The state machine.                                                      *)

Init ==
  /\ impl \in Impls
  /\ env \in Envs
  /\ odooClient = NoClient
  /\ task = [t \in Tasks |-> IdleFrame]
  /\ authReturned = {}

\* a request arrives and the handler runs to its first await
CallTool(t, req) ==
  /\ task[t].pc = "idle"
  /\ LET out == Handler(impl, env, odooClient, req)
     IN /\ task' = [task EXCEPT ![t] = out.f]
        /\ odooClient' = out.c
  /\ UNCHANGED <<impl, env, authReturned>>

\* the reply to authenticate arrives
AuthReply(t, reply) ==
  /\ task[t].pc = "auth"
  /\ LET f == Received(task[t], "authenticate", reply)
         out == IF impl = "ts" THEN auth(f, odooClient, reply)
                ELSE authenticate(impl, f, odooClient, reply)
     IN /\ task' = [task EXCEPT ![t] = out.f]
        /\ odooClient' = out.c
  /\ authReturned' =
       IF reply.kind = "ok" /\ reply.token # 0
       THEN authReturned \cup {reply.token} ELSE authReturned
  /\ UNCHANGED <<impl, env>>

\* the reply to execute_kw arrives
ExecReply(t, reply) ==
  /\ task[t].pc = "exec"
  /\ LET f == Received(task[t], "execute_kw", reply)
     IN task' = [task EXCEPT ![t] = Resume(impl, f, odooClient, reply)]
  /\ UNCHANGED <<impl, env, odooClient, authReturned>>

\* the result is handed to the transport; the handler's frame is gone
Return(t) ==
  /\ task[t].pc = "done"
  /\ task' = [task EXCEPT ![t] = IdleFrame]
  /\ UNCHANGED <<impl, env, odooClient, authReturned>>

Request ==
  \E t \in Serial :
    /\ task[t].pc = "idle"
    /\ \E n \in AllNames : \E a \in ArgsOf(n) : CallTool(t, [name |-> n, args |-> a])

Authenticated ==
  \E t \in Serial :
    /\ task[t].pc = "auth"
    /\ \E reply \in AuthReplies : AuthReply(t, reply)

Executed ==
  \E t \in Serial :
    /\ task[t].pc = "exec"
    /\ \E reply \in ExecRepliesFor(task[t].cur.op) : ExecReply(t, reply)

Returned == \E t \in Serial : Return(t)

Next == Request \/ Authenticated \/ Executed \/ Returned

Spec == Init /\ [][Next]_vars

\* the process runs the build of src/src/index.ts
InitTs == Init /\ impl = "ts"

SpecTs == InitTs /\ [][Next]_vars

----------------------------------------------------------------------------
(* Tool calls in flight at the same time: the handler is an async function *)
(* the server starts for every request it receives, so a second tool call  *)
(* can start while the first one awaits the remote system; the two then    *)
(* interleave at their awaits.                                             *)

\* the requests of the interleaved tool calls
InterleavedRequests ==
  {[name |-> "list_models", args |-> EmptyArgs],
   [name |-> "search_records",
    args |-> [EmptyArgs EXCEPT !.supplied = {"model", "fields"},
                               !.model = "res.partner", !.fields = <<"zz", "name", "aa">>]]}

\* the environment is complete
InitInterleaved == Init /\ env = Env(TRUE, TRUE, TRUE, "pw", "key")

RequestAny ==
  \E t \in Tasks :
    /\ task[t].pc = "idle"
    /\ \E req \in InterleavedRequests : CallTool(t, req)

AuthenticatedAny ==
  \E t \in Tasks :
    /\ task[t].pc = "auth"
    /\ \E reply \in AuthReplies : AuthReply(t, reply)

ExecutedAny ==
  \E t \in Tasks :
    /\ task[t].pc = "exec"
    /\ \E reply \in ExecRepliesFor(task[t].cur.op) : ExecReply(t, reply)

ReturnedAny == \E t \in Tasks : Return(t)

NextInterleaved == RequestAny \/ AuthenticatedAny \/ ExecutedAny \/ ReturnedAny

SpecInterleaved == InitInterleaved /\ [][NextInterleaved]_vars

----------------------------------------------------------------------------
(* Properties.                                                             *)

InFlight(t) == task[t].pc # "idle"
Done(t) == task[t].pc = "done"

\* the positions, in the calls of a tool call, of the calls of one method
CallsOf(f, method) == {k \in 1..Len(f.calls) : f.calls[k].method = method}

ReadOnlyMethods == {"search_read", "read", "fields_get"}

\* C1: every remote call a tool call sends is authenticate or execute_kw,
\* and every execute_kw call names search_read, read or fields_get; no other
\* (mutating) method is ever sent, whatever the tool name and the arguments.
C1_ReadOnlySurface ==
  \A t \in Tasks : \A k \in 1..Len(task[t].calls) :
    LET c == task[t].calls[k]
    IN \/ c.service = "common" /\ c.method = "authenticate"
       \/ c.service = "object" /\ c.method = "execute_kw"
          /\ c.inv.op \in ReadOnlyMethods

\* a tool call that has sent execute_kw twice: read, then fields_get
C1_Witness ==
  \E t \in Tasks : \E j, k \in CallsOf(task[t], "execute_kw") :
    /\ j < k
    /\ task[t].calls[j].inv.op = "read"
    /\ task[t].calls[k].inv.op = "fields_get"

\* C2: once an authenticate call has returned a truthy token, no step of a
\* tool call sends authenticate again.
C2_NoReauthentication ==
  [][authReturned # {} =>
       \A t \in Tasks :
         Cardinality(CallsOf(task'[t], "authenticate"))
           <= Cardinality(CallsOf(task[t], "authenticate"))]_vars

\* a later tool call went straight to execute_kw with the cached token
C2_Witness ==
  \E t \in Tasks :
    /\ authReturned # {}
    /\ task[t].pc = "exec"
    /\ Len(task[t].calls) = 1
    /\ task[t].calls[1].method = "execute_kw"
    /\ task[t].calls[1].uid \in authReturned

EmptyModel(t) ==
  /\ InFlight(t)
  /\ task[t].request.name \in {"search_records", "get_record", "get_model_fields"}
  /\ Has(task[t].request.args, "model")
  /\ task[t].request.args.model = ""

\* C3 (index.ts): a search_records, get_record or get_model_fields call
\* whose model is the empty string has returned an error result at the
\* handler's first step without sending authenticate or execute_kw; the
\* error is the validation error naming `model` whenever the client handle
\* exists.
C3_EmptyModelNoNetwork ==
  \A t \in Tasks :
    EmptyModel(t) =>
      /\ Done(t)
      /\ task[t].calls = <<>>
      /\ task[t].result.isError
      /\ odooClient.exists =>
           /\ task[t].result.text.kind = "Validation Error"
           /\ \E k \in 1..(Len(task[t].result.text.msg) - 32) :
                SubSeq(task[t].result.text.msg, k, k + 32)
                  = "model: Model name cannot be empty"

\* an empty model rejected by validation while a token is already cached
C3_Witness ==
  \E t \in Tasks :
    /\ EmptyModel(t)
    /\ odooClient.uid # 0
    /\ task[t].result.text.kind = "Validation Error"

FailureKinds == {"Error", "Validation Error", "Invalid field(s)"}
SuccessKinds ==
  {"Found", "Retrieved", "Models", "Fields", "Json", "Available Odoo models"}

\* C4: every tool call that has returned carries a text payload and a
\* boolean error flag; the flag is true for every failure and false for
\* every successful remote call.
C4_UniformResult ==
  \A t \in Tasks :
    Done(t) =>
      /\ task[t].result.text.payload.shape # "undefined"
      /\ task[t].result.hasFlag
      /\ task[t].result.text.kind \in FailureKinds => task[t].result.isError
      /\ task[t].result.text.kind \in SuccessKinds => ~task[t].result.isError

\* a get_record call that has returned after the remote system answered
\* execute_kw with a non-empty list of records
GotRecords(t) ==
  /\ Done(t)
  /\ task[t].request.name = "get_record"
  /\ Has(task[t].request.args, "ids")
  /\ task[t].stage = "main"
  /\ task[t].got.shape = "list"
  /\ Len(task[t].got.items) > 0

\* C5: get_record with exactly one id returns the record itself, not a
\* one-element sequence; with two or more ids it returns the sequence of
\* records in the order the remote system returned them.
C5_ScalarForSingleId ==
  \A t \in Tasks :
    GotRecords(t) =>
      LET n == Len(task[t].request.args.ids)
          p == task[t].result.text.payload
      IN /\ n = 1 => p = Payload("record", <<task[t].got.items[1]>>, {})
         /\ n >= 2 => p = task[t].got

\* the search_read calls a search_records call has sent
SearchReadCalls(t) ==
  IF task[t].request.name # "search_records" THEN {}
  ELSE {k \in 1..Len(task[t].calls) : task[t].calls[k].inv.op = "search_read"}

SearchKeys == {"fields", "limit", "offset", "order"}

\* arguments the schema of test-validation.js accepts
ValidSearchArgs(args) ==
  /\ args.defined
  /\ Has(args, "model") /\ args.model # ""
  /\ Has(args, "limit") => args.limit \in 1..1000
  /\ Has(args, "offset") => args.offset >= 0

C7_LimitExample ==
  \A t \in Tasks :
    LET args == task[t].request.args
    IN (ValidSearchArgs(args) /\ Has(args, "limit") /\ ~Has(args, "offset")) =>
         /\ \A k \in SearchReadCalls(t) :
              LET kw == task[t].calls[k].inv.kw
              IN /\ {"limit", "offset"} \subseteq kw.keys
                 /\ kw.limit = args.limit
                 /\ kw.offset = 0
         /\ (/\ Done(t)
             /\ task[t].request.name = "search_records"
             /\ task[t].stage = "main"
             /\ task[t].got.shape = "list") =>
              /\ task[t].result.text.kind = "Found"
              /\ task[t].result.text.count = Len(task[t].got.items)

\* C8: a search_records call whose limit is outside [1, 1000] or whose
\* offset is negative has returned an error result at the handler's first
\* step and has sent nothing to the remote system.
C8_OutOfRangeRejected ==
  \A t \in Tasks :
    LET args == task[t].request.args
    IN (/\ InFlight(t)
        /\ task[t].request.name = "search_records"
        /\ args.defined
        /\ \/ Has(args, "limit") /\ args.limit \notin 1..1000
           \/ Has(args, "offset") /\ args.offset < 0) =>
         /\ Done(t)
         /\ task[t].calls = <<>>
         /\ task[t].result.text.kind \in FailureKinds

UnknownTool(t) == InFlight(t) /\ task[t].request.name \notin ToolNames

\* C9 as claimed: a call of an unknown tool name returns the benign text
\* "Unknown tool: <name>" with the error flag not set, in every
\* configuration state, and sends nothing to the remote system.
C9_UnknownToolBenign ==
  \A t \in Tasks :
    UnknownTool(t) =>
      /\ Done(t)
      /\ task[t].calls = <<>>
      /\ task[t].result.text.kind = "Unknown tool"
      /\ task[t].result.text.msg = task[t].request.name
      /\ ~(task[t].result.hasFlag /\ task[t].result.isError)

\* C9 as amended: a call of an unknown tool name returns at the handler's
\* first step and sends nothing to the remote system.  When the client
\* handle exists the text is "Unknown tool: <name>", flagged as an error by
\* index.ts and without an error flag in index.js and lib/server.js; when
\* the configuration is incomplete the result is the configuration error.
C9_UnknownTool ==
  \A t \in Tasks :
    UnknownTool(t) =>
      /\ Done(t)
      /\ task[t].calls = <<>>
      /\ task[t].result.hasFlag <=> impl = "ts"
      /\ IF odooClient.exists
         THEN /\ task[t].result.text.kind = "Unknown tool"
              /\ task[t].result.text.msg = task[t].request.name
              /\ task[t].result.isError <=> impl = "ts"
         ELSE /\ task[t].result = ErrorResult(impl, getOdooClient(impl, env, NoClient).err)
              /\ task[t].result.text.kind = "Error"

\* index.ts has answered an unknown tool name with the flagged text
C9_Witness ==
  \E t \in Tasks :
    /\ UnknownTool(t)
    /\ impl = "ts"
    /\ odooClient.uid # 0
    /\ task[t].result.text.kind = "Unknown tool"
    /\ task[t].result.isError

\* C10: when both ODOO_PASSWORD and ODOO_API_KEY are set, the secret of
\* every authenticate and execute_kw call is the API key.
C10_ApiKeyPrecedence ==
  (env.password # "" /\ env.apiKey # "") =>
    \A t \in Tasks : \A k \in 1..Len(task[t].calls) :
      task[t].calls[k].secret = env.apiKey

\* C11: a tool call whose authenticate call failed (falsy result, transport
\* or remote error) has returned an error result without sending execute_kw
\* and has left no token cached; and a tool call that goes to the remote
\* system while no token is cached starts with authenticate.
C11_FailedAuthNotCached ==
  \A t \in Tasks :
    /\ task[t].failed.method = "authenticate" =>
         /\ Done(t)
         /\ task[t].result.text.kind \in FailureKinds
         /\ CallsOf(task[t], "execute_kw") = {}
         /\ odooClient.uid = 0
    /\ (task[t].calls # <<>> /\ task[t].calls[1].method = "execute_kw") =>
         task[t].calls[1].uid \in authReturned

\* the text contains the string s
Contains(text, s) ==
  \E k \in 1..(Len(text) - Len(s) + 1) : SubSeq(text, k, k + Len(s) - 1) = s

\* the arguments violate the schema index.ts declares for the tool
ViolatesSchema(req) ==
  /\ req.name \in {"search_records", "get_record", "get_model_fields"}
  /\ \/ ~req.args.defined
     \/ ~Has(req.args, "model")
     \/ req.args.model = ""
     \/ /\ req.name = "get_record"
        /\ \/ ~Has(req.args, "ids")
           \/ \E k \in 1..Len(req.args.ids) : req.args.ids[k] <= 0

\* C12 as claimed (index.ts): a tool call whose arguments violate the
\* schema has returned the text "Validation Error: <path>: <message>",
\* flagged as an error, whatever the configuration and the session.
C12_ValidationErrorAlways ==
  \A t \in Tasks :
    (InFlight(t) /\ ViolatesSchema(task[t].request)) =>
      /\ Done(t)
      /\ task[t].result.isError
      /\ task[t].result.text.kind = "Validation Error"
      /\ Contains(task[t].result.text.msg, ": ")

\* C12 as amended (index.ts): a tool call whose arguments violate the
\* schema returns at the handler's first step, flagged as an error, without
\* a remote call.  When the client handle exists the text is
\* "Validation Error: <path>: <message>", naming the offending field; when
\* the configuration is incomplete it is the configuration error
\* "Error: Missing required environment variables".  No other tool call
\* returns a validation error.
C12_ValidationError ==
  \A t \in Tasks :
    LET req == task[t].request
        text == task[t].result.text
    IN /\ (InFlight(t) /\ ViolatesSchema(req)) =>
            /\ Done(t)
            /\ task[t].calls = <<>>
            /\ task[t].result.isError
            /\ IF odooClient.exists
               THEN /\ text.kind = "Validation Error"
                    /\ Contains(text.msg, ": ")
                    /\ (req.args.defined /\ req.args.model = "") =>
                         Contains(text.msg, "model: ")
                    /\ (req.args.defined /\ req.name = "get_record"
                        /\ ~Has(req.args, "ids")) => Contains(text.msg, "ids: ")
               ELSE /\ text.kind = "Error"
                    /\ text.msg = "Missing required environment variables"
       /\ (Done(t) /\ text.kind = "Validation Error") => ViolatesSchema(req)

\* a get_record call with a non-positive id rejected while a token is cached
C12_Witness ==
  \E t \in Tasks :
    /\ Done(t)
    /\ odooClient.uid # 0
    /\ task[t].request.name = "get_record"
    /\ task[t].request.args.ids = <<0>>
    /\ task[t].result.text.kind = "Validation Error"
    /\ task[t].result.text.msg = "ids.0: Number must be greater than 0"

\* C13: a tool call sends at most one authenticate and at most one
\* execute_kw call, and a tool call whose execute_kw call failed has
\* returned an error result without sending anything more.
C13_OneRoundTrip ==
  \A t \in Tasks :
    /\ Cardinality(CallsOf(task[t], "execute_kw")) <= 1
    /\ Cardinality(CallsOf(task[t], "authenticate")) <= 1
    /\ task[t].failed.method = "execute_kw" =>
         /\ Done(t)
         /\ task[t].result.text.kind \in FailureKinds
         /\ task[t].calls[Len(task[t].calls)].method = "execute_kw"

\* C14: every execute_kw call carries a truthy token that an authenticate
\* call of this process returned earlier; none carries a falsy token.
C14_ExecuteAuthenticated ==
  \A t \in Tasks : \A k \in CallsOf(task[t], "execute_kw") :
    /\ task[t].calls[k].uid # 0
    /\ task[t].calls[k].uid \in authReturned

\* a tool call that authenticated and then sent execute_kw with the token
\* it was given
C14_Witness ==
  \E t \in Tasks :
    /\ Len(task[t].calls) = 2
    /\ task[t].calls[1].method = "authenticate"
    /\ task[t].calls[2].method = "execute_kw"
    /\ task[t].authed = 8
    /\ task[t].calls[2].uid = 8

\* C15: across the tool calls of a process the client handle, once
\* constructed, stays the same handle and keeps the token it has cached; at
\* most one token is ever obtained, and every execute_kw call carries it.
C15_OneSession ==
  [][/\ odooClient.exists =>
          /\ odooClient'.exists
          /\ odooClient'.password = odooClient.password
     /\ odooClient.uid # 0 => odooClient'.uid = odooClient.uid
     /\ Cardinality(authReturned') <= 1
     /\ \A t \in Tasks : \A k \in CallsOf(task'[t], "execute_kw") :
          task'[t].calls[k].uid \in authReturned']_vars

\* a later tool call has completed a remote call with the token the first
\* one obtained, without authenticating
C15_Witness ==
  \E t \in Tasks :
    /\ Done(t)
    /\ authReturned = {7}
    /\ Len(task[t].calls) = 1
    /\ task[t].calls[1].uid = odooClient.uid
    /\ task[t].result.text.kind \in SuccessKinds

\* the failure kind a reader tells from the text of an error result of
\* index.ts or index.js
ReadKind(i, text) ==
  IF i = "ts"
  THEN CASE text.kind # "Error" -> "other"
         [] text.msg = "Auth failed" -> "credentials"
         [] text.msg \in {"HTTP 500", "fetch failed"} -> "transport"
         [] OTHER -> "remote"
  ELSE CASE text.kind # "Error" -> "other"
         [] text.msg = "Authentication failed: Invalid credentials" -> "credentials"
         [] Contains(text.msg, "Odoo Error: ") -> "remote"
         [] OTHER -> "transport"

\* the kind of a failure of the adapter
FailureKind(failure) ==
  CASE failure.kind = "falsy" -> "credentials"
    [] failure.kind = "rpcerr" -> "remote"
    [] OTHER -> "transport"

\* C16 (index.ts, index.js): the result of a tool call whose remote call
\* failed tells the kind of the failure: a non-success status or a timeout
\* gives a transport error that shows nothing of the response body, an
\* error envelope gives an error whose text is the remote message, a falsy
\* authenticate result gives the invalid-credentials error.
C16_FailureKinds ==
  \A t \in Tasks :
    (impl \in {"ts", "js"} /\ Done(t) /\ task[t].failed # NoFailure) =>
      LET failure == task[t].failed
          text == task[t].result.text
      IN /\ ReadKind(impl, text) = FailureKind(failure)
         /\ (FailureKind(failure) = "transport" /\ failure.msg # "") =>
              ~Contains(text.msg, failure.msg)
         /\ (FailureKind(failure) = "remote" /\ failure.msg # "") =>
              Contains(text.msg, failure.msg)

\* how many times x occurs in the list q
Occurrences(q, x) == Cardinality({k \in 1..Len(q) : q[k] = x})

\* a list_models call that has returned after the remote system answered
\* with a list of models (index.js, lib/server.js: with an arguments object)
ListedModels(t) ==
  /\ Done(t)
  /\ task[t].request.name = "list_models"
  /\ task[t].failed = NoFailure
  /\ task[t].got.shape = "list"
  /\ impl = "ts" \/ task[t].request.args.defined

\* the bullet lines of the result are sorted and are the models of the
\* reply, each as often as the reply has it (index.js, lib/server.js:
\* without the transient models unless args.transient is set)
SortedBullets(t) ==
  LET bullets == task[t].result.text.payload.items
      models == task[t].got.items
      kept(x) == impl = "ts" \/ task[t].request.args.transient \/ x % 2 # 0
  IN /\ task[t].result.text.kind \in SuccessKinds
     /\ \A j, k \in 1..Len(bullets) : j < k => bullets[j] <= bullets[k]
     /\ \A x \in RecordIds :
          Occurrences(bullets, x) = (IF kept(x) THEN Occurrences(models, x) ELSE 0)

\* C17 as claimed: a successful list_models call renders one bullet line
\* per model of the reply (apart from the transient filter), in ascending
\* order of model name, under a summary line whose count is the number of
\* bullet lines.
C17_SortedBulletsWithCount ==
  \A t \in Tasks :
    ListedModels(t) =>
      /\ SortedBullets(t)
      /\ task[t].result.text.kind = "Models"
      /\ task[t].result.text.count = Len(task[t].result.text.payload.items)

\* C17 as amended: a successful list_models call renders one bullet line
\* per model of the reply (apart from the transient filter of index.js and
\* lib/server.js), in ascending order of model name.  index.ts puts them
\* under "Found N available Odoo models", N being the number of bullet
\* lines; index.js and lib/server.js under "Available Odoo models:", which
\* carries no count.
C17_SortedBullets ==
  \A t \in Tasks :
    ListedModels(t) =>
      /\ SortedBullets(t)
      /\ IF impl = "ts"
         THEN /\ task[t].result.text.kind = "Models"
              /\ task[t].result.text.count = Len(task[t].result.text.payload.items)
         ELSE task[t].result.text.kind = "Available Odoo models"

\* index.ts has listed two models the reply had in descending order
C17_Witness ==
  \E t \in Tasks :
    /\ ListedModels(t)
    /\ impl = "ts"
    /\ task[t].got.items = <<2, 1>>
    /\ task[t].result.text.payload.items = <<1, 2>>
    /\ task[t].result.text.count = 2

\* C18: with two tool calls in flight, a truthy token stored in the session
\* is never replaced by a falsy value or by another token, and a tool call
\* whose own authenticate call returned a truthy token does not return the
\* authentication failure.
C18_TokenSafe ==
  [][/\ odooClient.uid # 0 => odooClient'.uid = odooClient.uid
     /\ \A t \in Tasks :
          (task'[t].pc = "done" /\ task'[t].authed # 0) =>
            task'[t].result.text.msg # AuthFailed(impl).msg]_vars

\* the message index.ts gives the error of a failed remote call
OriginalMessage(failure) ==
  CASE failure.kind = "falsy" -> "Auth failed"
    [] failure.kind = "http" -> "HTTP 500"
    [] failure.kind = "timeout" -> "fetch failed"
    [] OTHER -> IF failure.msg = "" THEN "Odoo error" ELSE failure.msg

\* C19 (index.ts): a search_records or get_record call whose remote call
\* failed.  The diagnosis runs exactly when fields were supplied and the
\* message of the failure mentions a field.  The result is the
\* "Invalid field(s)" error listing, in request order, the requested
\* fields that are not keys of the fields_get result when the diagnosis
\* ran, fields_get returned a value with keys to compare (not null) and
\* some requested field is absent; in every other case, a failed fields_get
\* call included, it is the error of the first failure.
C19_InvalidFieldDiagnosis ==
  \A t \in Tasks :
    (/\ Done(t)
     /\ task[t].request.name \in {"search_records", "get_record"}
     /\ task[t].failed # NoFailure) =>
      LET args == task[t].request.args
          original == OriginalMessage(task[t].failed)
          mentions == Contains(original, "field")
          described == task[t].got.shape \in {"map", "other"}
          absent == SelectSeq(args.fields, LAMBDA x : x \notin task[t].got.keys)
          text == task[t].result.text
      IN /\ task[t].stage = "fallback" <=> (Has(args, "fields") /\ mentions)
         /\ task[t].result.isError
         /\ IF Has(args, "fields") /\ mentions /\ described /\ absent # <<>>
            THEN text.kind = "Invalid field(s)" /\ text.names = absent
            ELSE text.kind = "Error" /\ text.msg = original

\* a get_record call diagnosed with two invalid fields, in request order
C19_Witness ==
  \E t \in Tasks :
    /\ Done(t)
    /\ task[t].request.name = "get_record"
    /\ task[t].failed = Failure("execute_kw", "rpcerr", "Invalid field zz")
    /\ task[t].got = MapPayload({"name"})
    /\ task[t].result.text.kind = "Invalid field(s)"
    /\ task[t].result.text.names = <<"zz", "aa">>

====
